---- MODULE Spec2Model ----
(***************************************************************************)
(* Model of datamapping.py, a Streamlit script that maps the columns of an *)
(* uploaded CSV to the fields of a JSON schema, validates the mapping and  *)
(* exports the reshaped table.                                             *)
(*                                                                         *)
(* Streamlit re-executes the whole script, top to bottom, after every      *)
(* widget interaction.  The only values that outlive one execution are the *)
(* widget values and st.session_state.  Every action of the model is one   *)
(* user interaction followed by one complete execution of the script.      *)
(*                                                                         *)
(* The model assumes that the directory "contratos" exists and holds the   *)
(* schema files listed in contratos (lines 27-35 do not stop the script).  *)
(***************************************************************************)
EXTENDS Integers, Sequences, FiniteSets, TLC

VARIABLES
    selected_schema,     \* value of the schema selectbox (line 39)
    uploaded_file,       \* value of the file uploader (line 91)
    widget,              \* values of the "map_<target_field>" selectboxes
    session_state,       \* st.session_state (lines 212-214, 272)
    pc,                  \* where the last execution of the script ended
    bound,               \* names the last execution of the script bound
    fields,              \* line 55
    df_source,           \* line 100
    mappings,            \* lines 138, 176, 203
    validation_errors,   \* lines 222, 231 (the field names reported)
    validation_warnings, \* lines 223, 239 (the field names reported)
    mapping_valid,       \* lines 247, 250
    df_transformed,      \* lines 284-296
    export_blocked,      \* the warning of line 326 is shown
    last_event           \* the user interaction that started the execution

vars == <<selected_schema, uploaded_file, widget, session_state, pc, bound,
          fields, df_source, mappings, validation_errors, validation_warnings,
          mapping_valid, df_transformed, export_blocked, last_event>>

----------------------------------------------------------------------------
(* Bounds and literals *)

MaxRows == 2

PLACEHOLDER == "--Selecciones esquema--"
UNMAPPED == "-- Sin mapear --"
EMPTY == ""
NaN == "NaN"
None == [none |-> TRUE]

----------------------------------------------------------------------------
(* Inputs: the schema files of the directory and the files a user uploads *)

Field(name, req) == [target_field |-> name, required |-> req]

contratos ==
    [f \in {"clientes.json", "notas.json", "pedidos.json", "opcional.json",
            "vacio.json", "duplicado.json"} |->
        CASE f = "clientes.json" ->
                [contract_name |-> "clientes",
                 fields |-> <<Field("name", TRUE), Field("id", TRUE),
                              Field("notes", FALSE)>>]
          [] f = "notas.json" ->
                [contract_name |-> "notas",
                 fields |-> <<Field("notes", FALSE), Field("name", TRUE)>>]
          [] f = "pedidos.json" ->
                [contract_name |-> "pedidos",
                 fields |-> <<Field("id", TRUE), Field("notes", FALSE),
                              Field("name", TRUE)>>]
          [] f = "opcional.json" ->
                [contract_name |-> "opcional",
                 fields |-> <<Field("notes", FALSE), Field("id", FALSE)>>]
          [] f = "vacio.json" ->
                [contract_name |-> "vacio", fields |-> <<>>]
          [] f = "duplicado.json" ->
                [contract_name |-> "duplicado",
                 fields |-> <<Field("name", TRUE), Field("name", FALSE)>>]]

json_files == DOMAIN contratos

schema_names == {PLACEHOLDER} \cup json_files

ColumnOrders == {<<"full_name", "customer_id">>, <<"customer_id", "full_name">>}

CellText ==
    [c \in {"full_name", "customer_id"} |->
        IF c = "full_name" THEN <<"Ana", "Luis", "Eva", "Juan">>
                           ELSE <<"7", "8", "9", "10">>]

\* the text of row r (1-based) of column c of an uploaded CSV
Cell(c, r) == CellText[c][((r - 1) % 4) + 1]

\* the files a user can upload: well-formed CSVs and one unreadable file
Uploads ==
    {[name |-> "datos.csv", parses |-> TRUE, header |-> h, rows |-> n] :
        h \in ColumnOrders, n \in 0..MaxRows}
    \cup {[name |-> "roto.csv", parses |-> FALSE, header |-> <<>>, rows |-> 0]}

----------------------------------------------------------------------------
(* Python list and dict *)

\* the elements of a list
Range(seq) == {seq[i] : i \in 1..Len(seq)}

EmptyDict == <<>>

DictGet(d, k, default) == IF k \in DOMAIN d THEN d[k] ELSE default

DictSet(d, k, v) == [x \in (DOMAIN d) \cup {k} |-> IF x = k THEN v ELSE d[x]]

----------------------------------------------------------------------------
(* pandas DataFrame: row labels, ordered column names, one value per row   *)
(* and column                                                              *)

EmptyDataFrame == [index |-> <<>>, columns |-> <<>>, data |-> <<>>]

\* pd.read_csv of a well-formed file: a RangeIndex and the header's columns
read_csv(file) ==
    [index |-> [r \in 1..file.rows |-> r - 1],
     columns |-> file.header,
     data |-> [c \in {file.header[i] : i \in 1..Len(file.header)} |->
                  [r \in 1..file.rows |-> Cell(c, r)]]]

\* df[col]: the column as a Series carrying the frame's row labels
GetItem(df, col) == [index |-> df.index, values |-> df.data[col]]

\* the value a Series holds for a row label, NaN when it has no such label
SeriesAt(s, label) ==
    IF \E i \in 1..Len(s.index) : s.index[i] = label
    THEN s.values[CHOOSE i \in 1..Len(s.index) : s.index[i] = label]
    ELSE NaN

\* DataFrame.reindex on the row axis, missing rows filled with NaN
Reindex(df, index) ==
    [index |-> index,
     columns |-> df.columns,
     data |-> [c \in DOMAIN df.data |->
                  [r \in 1..Len(index) |->
                      SeriesAt(GetItem(df, c), index[r])]]]

InsertColumn(df, key, col) ==
    [index |-> df.index,
     columns |-> IF key \in DOMAIN df.data THEN df.columns
                                           ELSE Append(df.columns, key),
     data |-> [c \in (DOMAIN df.data) \cup {key} |->
                  IF c = key THEN col ELSE df.data[c]]]

\* df[key] = <Series> without adopting the Series' row labels
SetItemSeries_keep_index(df, key, s) ==
    InsertColumn(df, key,
                 [r \in 1..Len(df.index) |-> SeriesAt(s, df.index[r])])

\* df[key] = <Series>: a frame without rows first takes the row labels of a
\* non-empty Series (its columns are reindexed, hence NaN), then the Series
\* is aligned on the frame's row labels
SetItemSeries(df, key, s) ==
    LET base == IF Len(df.index) = 0 /\ Len(s.values) > 0
                THEN Reindex(df, s.index) ELSE df
    IN  InsertColumn(base, key,
                     [r \in 1..Len(base.index) |-> SeriesAt(s, base.index[r])])

\* df[key] = <scalar>: the scalar is broadcast over the frame's rows
SetItemScalar(df, key, v) ==
    InsertColumn(df, key, [r \in 1..Len(df.index) |-> v])

----------------------------------------------------------------------------
(* The pieces of the script *)

\* Python truth value of a str
Truthy(s) == s # ""

\* [f for f in fields if f.get('required', False)]
required_fields(fs) == SelectSeq(fs, LAMBDA f : f.required)

\* [f for f in fields if not f.get('required', False)]
optional_fields(fs) == SelectSeq(fs, LAMBDA f : ~f.required)

\* the options of every mapping selectbox
csv_columns(df) == <<UNMAPPED>> \o df.columns

\* st.selectbox(label, options, key=key): the value the user last chose for
\* this key while it is still one of the options, else the first option
selectbox(options, key, w) ==
    IF key \in DOMAIN w /\ (\E i \in 1..Len(options) : options[i] = w[key])
    THEN w[key]
    ELSE options[1]

\* Streamlit refuses a second widget with a key already used in the same
\* execution of the script (DuplicateWidgetID)
HasDuplicateKey(fs) ==
    \E i, j \in 1..Len(fs) : i < j /\ fs[i].target_field = fs[j].target_field

\* the keys of the selectboxes an execution renders
RenderedKeys(fs) == {fs[i].target_field : i \in 1..Len(fs)}

\* a variant that gives a source column to one field only
RECURSIVE MapFields_unique(_, _, _, _)
MapFields_unique(fs, m, options, w) ==
    IF fs = <<>> THEN m
    ELSE LET key == Head(fs).target_field
             selected_column == selectbox(options, key, w)
             taken == \E k \in DOMAIN m :
                          m[k] = selected_column /\ m[k] # UNMAPPED
         IN  MapFields_unique(Tail(fs),
                 DictSet(m, key, IF taken THEN UNMAPPED ELSE selected_column),
                 options, w)

\* for field in <list>: mappings[field['target_field']] = st.selectbox(...)
RECURSIVE MapFields(_, _, _, _)
MapFields(fs, m, options, w) ==
    IF fs = <<>> THEN m
    ELSE LET key == Head(fs).target_field
             selected_column == selectbox(options, key, w)
         IN  MapFields(Tail(fs), DictSet(m, key, selected_column), options, w)

\* a variant that stops at the first unmapped required field
RECURSIVE ValidationErrors_first(_, _)
ValidationErrors_first(req, m) ==
    IF req = <<>> THEN <<>>
    ELSE LET field_name == Head(req).target_field
             mapped_column == DictGet(m, field_name, UNMAPPED)
         IN  IF mapped_column = UNMAPPED THEN <<field_name>>
             ELSE ValidationErrors_first(Tail(req), m)

\* a variant that also reports a required field whose source column is
\* mapped to another field as well
RECURSIVE ValidationErrors_shared(_, _)
ValidationErrors_shared(req, m) ==
    IF req = <<>> THEN <<>>
    ELSE LET field_name == Head(req).target_field
             mapped_column == DictGet(m, field_name, UNMAPPED)
             shared == \E k \in DOMAIN m : k # field_name /\ m[k] = mapped_column
         IN  (IF mapped_column = UNMAPPED \/ shared THEN <<field_name>> ELSE <<>>)
             \o ValidationErrors_shared(Tail(req), m)

\* the loop over required_fields that fills validation_errors
RECURSIVE ValidationErrors(_, _)
ValidationErrors(req, m) ==
    IF req = <<>> THEN <<>>
    ELSE LET field_name == Head(req).target_field
             mapped_column == DictGet(m, field_name, UNMAPPED)
         IN  (IF mapped_column = UNMAPPED THEN <<field_name>> ELSE <<>>)
             \o ValidationErrors(Tail(req), m)

\* the loop over optional_fields that fills validation_warnings
RECURSIVE ValidationWarnings(_, _)
ValidationWarnings(opt, m) ==
    IF opt = <<>> THEN <<>>
    ELSE LET field_name == Head(opt).target_field
             mapped_column == DictGet(m, field_name, UNMAPPED)
         IN  (IF mapped_column = UNMAPPED THEN <<field_name>> ELSE <<>>)
             \o ValidationWarnings(Tail(opt), m)

\* if validation_errors: mapping_valid = False  else: mapping_valid = True
MappingValid(errors) == errors = <<>>

\* a variant that lets the export through whenever a file is uploaded
ExportGuard_no_validity(up, sel, ss) == up # None /\ Truthy(sel)

\* the condition of the export section
ExportGuard(up, sel, ss) ==
    up # None /\ Truthy(sel) /\ DictGet(ss, "mapping_valid", FALSE)

\* the condition of the elif branch that shows the export warning
BlockedGuard(up, sel, ss) ==
    up # None /\ Truthy(sel) /\ ~DictGet(ss, "mapping_valid", FALSE)

\* the export loop over the fields, applied to the frame built so far
RECURSIVE ExportLoop(_, _, _, _)
ExportLoop(fs, m, src, df) ==
    IF fs = <<>> THEN df
    ELSE LET target_field == Head(fs).target_field
             source_column == DictGet(m, target_field, UNMAPPED)
         IN  ExportLoop(Tail(fs), m, src,
                 IF source_column # UNMAPPED
                 THEN SetItemSeries(df, target_field, GetItem(src, source_column))
                 ELSE SetItemScalar(df, target_field, EMPTY))

\* a variant that walks the fields in the order the form shows them
Export_form_order(fs, m, src) ==
    ExportLoop(required_fields(fs) \o optional_fields(fs), m, src,
               EmptyDataFrame)

\* df_transformed = pd.DataFrame(); for field in fields: ...
Export(fs, m, src) == ExportLoop(fs, m, src, EmptyDataFrame)

----------------------------------------------------------------------------
(* One execution of the script *)

\* what an execution leaves behind when it binds none of the later names
Unbound ==
    [fields |-> <<>>, df_source |-> EmptyDataFrame, mappings |-> EmptyDict,
     validation_errors |-> <<>>, validation_warnings |-> <<>>,
     mapping_valid |-> FALSE, df_transformed |-> EmptyDataFrame,
     export_blocked |-> FALSE, widget |-> EmptyDict]

\* section 1: the schema is loaded, and fields is bound, only when the
\* selection is not the placeholder
Section1(sel) ==
    IF sel # PLACEHOLDER
    THEN [bound |-> {"schema", "fields"}, fields |-> contratos[sel].fields]
    ELSE [bound |-> {}, fields |-> Unbound.fields]

\* sections 3 and 4 once fields is known to be bound: the form, the
\* session state and the validation
Section3(fs, src, w, ss) ==
    LET req == required_fields(fs)
        opt == optional_fields(fs)
        options == csv_columns(src)
        m == MapFields(opt, MapFields(req, EmptyDict, options, w), options, w)
        ss3 == DictSet(DictSet(DictSet(ss, "mappings", m), "fields", fs),
                       "df_source", src)
        errors == ValidationErrors(req, m)
        warnings == ValidationWarnings(opt, m)
        valid == MappingValid(errors)
    IN  [mappings |-> m, validation_errors |-> errors,
         validation_warnings |-> warnings, mapping_valid |-> valid,
         widget |-> [k \in RenderedKeys(fs) |-> selectbox(options, k, w)],
         session_state |-> DictSet(ss3, "mapping_valid", valid)]

\* section 5: the export, or the warning that it is blocked
Section5(up, sel, ss, fs, m, src) ==
    IF ExportGuard(up, sel, ss)
    THEN [df_transformed |-> Export(fs, m, src), built |-> TRUE,
          export_blocked |-> FALSE]
    ELSE [df_transformed |-> Unbound.df_transformed, built |-> FALSE,
          export_blocked |-> BlockedGuard(up, sel, ss)]

\* the whole script, run on the widget values and the session state that
\* the previous execution left
Script(sel, up, w, ss) ==
    LET s1 == Section1(sel)
        base == [Unbound EXCEPT !.fields = s1.fields] @@
                [session_state |-> ss]
    IN  IF up = None
        THEN \* sections 2 to 5 are skipped
             base @@ [pc |-> "end", bound |-> s1.bound]
        ELSE IF ~up.parses
        THEN \* read_csv raises, the except branch calls st.stop()
             base @@ [pc |-> "stop_123", bound |-> s1.bound]
        ELSE LET src == read_csv(up)
                 b2 == s1.bound \cup {"df_source"}
                 loaded == [base EXCEPT !.df_source = src]
             IN  IF ~Truthy(sel)
                 THEN loaded @@ [pc |-> "end", bound |-> b2]
                 ELSE IF "fields" \notin b2
                 THEN \* line 144 reads a name that was never bound
                      loaded @@ [pc |-> "NameError_144",
                                 bound |-> b2 \cup {"csv_columns", "mappings"}]
                 ELSE IF HasDuplicateKey(s1.fields)
                 THEN loaded @@ [pc |-> "DuplicateWidgetID",
                                 bound |-> b2 \cup {"csv_columns", "mappings"}]
                 ELSE LET s3 == Section3(s1.fields, src, w, ss)
                          s5 == Section5(up, sel, s3.session_state, s1.fields,
                                         s3.mappings, src)
                      IN  [fields |-> s1.fields, df_source |-> src,
                           mappings |-> s3.mappings,
                           validation_errors |-> s3.validation_errors,
                           validation_warnings |-> s3.validation_warnings,
                           mapping_valid |-> s3.mapping_valid,
                           df_transformed |-> s5.df_transformed,
                           export_blocked |-> s5.export_blocked,
                           widget |-> s3.widget,
                           session_state |-> s3.session_state,
                           pc |-> "end",
                           bound |-> b2 \cup {"csv_columns", "mappings",
                                              "mapping_valid"}
                                     \cup (IF s5.built THEN {"df_transformed"}
                                                       ELSE {})]

\* the state after the script has run on the given inputs
Rerun(sel, up, w) ==
    LET r == Script(sel, up, w, session_state)
    IN  /\ selected_schema' = sel
        /\ uploaded_file' = up
        /\ widget' = r.widget
        /\ session_state' = r.session_state
        /\ pc' = r.pc
        /\ bound' = r.bound
        /\ fields' = r.fields
        /\ df_source' = r.df_source
        /\ mappings' = r.mappings
        /\ validation_errors' = r.validation_errors
        /\ validation_warnings' = r.validation_warnings
        /\ mapping_valid' = r.mapping_valid
        /\ df_transformed' = r.df_transformed
        /\ export_blocked' = r.export_blocked

----------------------------------------------------------------------------
(* The session *)

\* the first execution: the schema selectbox shows its first option, the
\* placeholder, and no file is uploaded
Init ==
    LET r == Script(PLACEHOLDER, None, EmptyDict, EmptyDict)
    IN  /\ selected_schema = PLACEHOLDER
        /\ uploaded_file = None
        /\ widget = r.widget
        /\ session_state = r.session_state
        /\ pc = r.pc
        /\ bound = r.bound
        /\ fields = r.fields
        /\ df_source = r.df_source
        /\ mappings = r.mappings
        /\ validation_errors = r.validation_errors
        /\ validation_warnings = r.validation_warnings
        /\ mapping_valid = r.mapping_valid
        /\ df_transformed = r.df_transformed
        /\ export_blocked = r.export_blocked
        /\ last_event = [type |-> "open", key |-> "", from |-> ""]

\* the user picks another entry of the schema selectbox
SelectSchema(sel) ==
    /\ sel # selected_schema
    /\ last_event' = [type |-> "schema", key |-> "", from |-> ""]
    /\ Rerun(sel, uploaded_file, widget)

\* the user uploads a file, replacing the one uploaded before
UploadFile(file) ==
    /\ file # uploaded_file
    /\ last_event' = [type |-> "upload", key |-> "", from |-> ""]
    /\ Rerun(selected_schema, file, widget)

\* the user removes the uploaded file
RemoveFile ==
    /\ uploaded_file # None
    /\ last_event' = [type |-> "remove", key |-> "", from |-> ""]
    /\ Rerun(selected_schema, None, widget)

\* the user picks another option of one of the mapping selectboxes shown
ChangeSelection(key, column) ==
    /\ key \in DOMAIN widget
    /\ column \in Range(csv_columns(df_source))
    /\ column # widget[key]
    /\ last_event' = [type |-> "select", key |-> key, from |-> widget[key]]
    /\ Rerun(selected_schema, uploaded_file, DictSet(widget, key, column))

\* every key a mapping selectbox can have, every option it can offer
AllKeys == UNION {RenderedKeys(contratos[f].fields) : f \in json_files}

AllOptions == {UNMAPPED} \cup UNION {Range(h) : h \in ColumnOrders}

Next ==
    \/ \E sel \in schema_names : SelectSchema(sel)
    \/ \E file \in Uploads : UploadFile(file)
    \/ RemoveFile
    \/ \E key \in AllKeys : \E column \in AllOptions :
           ChangeSelection(key, column)

Spec == Init /\ [][Next]_vars

----------------------------------------------------------------------------
(* Helpers of the properties *)

Count(seq, x) == Cardinality({i \in 1..Len(seq) : seq[i] = x})

Remove(seq, x) == SelectSeq(seq, LAMBDA y : y # x)

TargetFields(fs) == [i \in 1..Len(fs) |-> fs[i].target_field]

\* the last execution ran the validation section to its end
Validated == "mapping_valid" \in bound

\* the last execution built the output table and offered it for download
Exported == "df_transformed" \in bound

\* the inputs of the page are a readable file and a schema file
InputsPresent ==
    /\ uploaded_file # None
    /\ uploaded_file.parses
    /\ selected_schema \in json_files

\* the column the form currently shows for a field of the selected schema
CurrentSelection(key) ==
    selectbox(csv_columns(read_csv(uploaded_file)), key, widget)

\* the mapping that the current selections stand for
CurrentMapping ==
    [k \in RenderedKeys(contratos[selected_schema].fields) |->
        CurrentSelection(k)]

----------------------------------------------------------------------------
(* Properties *)

\* C1: validation reports one error for exactly each required field whose
\* mapping value is UNMAPPED and one warning for exactly each optional field
\* whose mapping value is UNMAPPED; the mapping is valid exactly when there
\* is no error, so unmapped optional fields never make it invalid.
C1_ValidationExact ==
    Validated =>
        /\ \A n \in Range(TargetFields(fields)) \cup Range(validation_errors)
                    \cup Range(validation_warnings) :
              /\ Count(validation_errors, n) =
                    Cardinality({i \in 1..Len(fields) :
                        /\ fields[i].target_field = n
                        /\ fields[i].required
                        /\ DictGet(mappings, n, UNMAPPED) = UNMAPPED})
              /\ Count(validation_warnings, n) =
                    Cardinality({i \in 1..Len(fields) :
                        /\ fields[i].target_field = n
                        /\ ~fields[i].required
                        /\ DictGet(mappings, n, UNMAPPED) = UNMAPPED})
        /\ mapping_valid <=> (validation_errors = <<>>)
        /\ mapping_valid <=>
              \A i \in 1..Len(fields) :
                  fields[i].required =>
                      mappings[fields[i].target_field] # UNMAPPED

C1_Witness ==
    /\ Validated
    /\ Len(validation_errors) = 1
    /\ Len(validation_warnings) = 1
    /\ \E i \in 1..Len(fields) :
           fields[i].required /\ mappings[fields[i].target_field] # UNMAPPED

\* C2: an output table is built and offered for download only when every
\* required field of the selected schema is mapped to a column of the
\* uploaded file; while a required field is UNMAPPED the export is blocked
\* and no output table is built.
C2_ExportOnlyWhenValid ==
    /\ Exported =>
          /\ InputsPresent
          /\ \A i \in 1..Len(contratos[selected_schema].fields) :
                LET f == contratos[selected_schema].fields[i]
                IN  f.required =>
                        CurrentSelection(f.target_field)
                            \in Range(read_csv(uploaded_file).columns)
    /\ (/\ InputsPresent
        /\ pc = "end"
        /\ \E i \in 1..Len(contratos[selected_schema].fields) :
               LET f == contratos[selected_schema].fields[i]
               IN  f.required /\ CurrentSelection(f.target_field) = UNMAPPED)
       => (~Exported /\ export_blocked)

C2_Witness ==
    /\ Exported
    /\ last_event.type = "select"
    /\ Len(required_fields(fields)) = 2
    /\ validation_warnings # <<>>

\* C3: the output table has exactly the rows of the source table, in the
\* same order, for every valid mapping, also when every field is UNMAPPED.
C3_RowCount ==
    Exported =>
        /\ Len(df_transformed.index) = uploaded_file.rows
        /\ df_transformed.index = df_source.index

\* C4: the output column of every optional field left UNMAPPED holds the
\* empty string in every row of the output table, whatever the position of
\* the field in the schema.
C4_UnmappedIsEmptyString ==
    Exported =>
        \A i \in 1..Len(fields) :
            (~fields[i].required /\ mappings[fields[i].target_field] = UNMAPPED)
            => \A r \in 1..Len(df_transformed.index) :
                   df_transformed.data[fields[i].target_field][r] = EMPTY

\* C5: the output table has one column per field of the schema, named by
\* target_field, in the schema's declaration order, whatever the order of
\* the source columns and the required flags.
C5_ColumnOrder ==
    Exported =>
        /\ df_transformed.columns =
               TargetFields(contratos[selected_schema].fields)
        /\ DOMAIN df_transformed.data = Range(df_transformed.columns)

C5_Witness ==
    /\ Exported
    /\ Len(fields) >= 2
    /\ ~fields[1].required
    /\ \E i \in 2..Len(fields) : fields[i].required
    /\ df_source.columns[1] = "customer_id"
    /\ mappings[fields[1].target_field] = "full_name"

\* C6: the output column of every mapped field holds, row for row, the
\* values of its source column, also when several fields share a column.
C6_VerbatimCopy ==
    Exported =>
        \A i \in 1..Len(fields) :
            LET target_field == fields[i].target_field
                source_column == CurrentSelection(target_field)
            IN  source_column # UNMAPPED =>
                    /\ Len(df_transformed.data[target_field]) =
                           uploaded_file.rows
                    /\ \A r \in 1..uploaded_file.rows :
                           df_transformed.data[target_field][r] =
                               Cell(source_column, r)

C6_Witness ==
    /\ Exported
    /\ uploaded_file.rows >= 2
    /\ \E i, j \in 1..Len(fields) :
           /\ i # j
           /\ mappings[fields[i].target_field] # UNMAPPED
           /\ mappings[fields[i].target_field] =
                  mappings[fields[j].target_field]

\* C7: building the mapping from the same selections with the optional
\* fields processed before the required ones gives the same mapping and the
\* same validation result as the order the script uses.
C7_PartitionOrder ==
    Validated =>
        LET options == csv_columns(df_source)
            req == required_fields(fields)
            opt == optional_fields(fields)
            other == MapFields(req, MapFields(opt, EmptyDict, options, widget),
                               options, widget)
        IN  /\ other = mappings
            /\ ValidationErrors(req, other) = validation_errors
            /\ ValidationWarnings(opt, other) = validation_warnings
            /\ MappingValid(ValidationErrors(req, other)) = mapping_valid

C7_Witness ==
    /\ Validated
    /\ Len(fields) >= 2
    /\ ~fields[1].required
    /\ \E i \in 2..Len(fields) :
           /\ fields[i].required
           /\ mappings[fields[i].target_field] # UNMAPPED
           /\ mappings[fields[i].target_field] =
                  mappings[fields[1].target_field]

\* C8: mapping one required field that was UNMAPPED to a source column,
\* every other entry unchanged, leaves the error list without that field's
\* error and otherwise as it was; a valid mapping stays valid.
C8_Monotone ==
    [][(/\ Validated
        /\ Validated'
        /\ fields' = fields
        /\ \E i \in 1..Len(fields) :
               LET k == fields[i].target_field
               IN  /\ fields[i].required
                   /\ mappings[k] = UNMAPPED
                   /\ mappings'[k] # UNMAPPED
                   /\ \A j \in DOMAIN mappings \ {k} :
                          mappings'[j] = mappings[j])
       => (/\ \E i \in 1..Len(fields) :
                  /\ fields[i].required
                  /\ mappings[fields[i].target_field] = UNMAPPED
                  /\ mappings'[fields[i].target_field] # UNMAPPED
                  /\ validation_errors' =
                         Remove(validation_errors, fields[i].target_field)
           /\ Len(validation_errors') = Len(validation_errors) - 1
           /\ mapping_valid => mapping_valid')]_vars

C8_Witness ==
    /\ Validated
    /\ last_event.type = "select"
    /\ last_event.from = UNMAPPED
    /\ \E i \in 1..Len(fields) :
           fields[i].required /\ fields[i].target_field = last_event.key
    /\ Len(validation_errors) = 1
    /\ \E k \in DOMAIN mappings :
           k # last_event.key /\ mappings[k] = mappings[last_event.key]

\* C9: after every user action each value kept in the session state is the
\* one derived from the current schema, the current source table and the
\* current selections; a value whose inputs are gone is not kept.
C9_SessionReplaced ==
    /\ "fields" \in DOMAIN session_state =>
          /\ selected_schema \in json_files
          /\ session_state["fields"] = contratos[selected_schema].fields
    /\ "df_source" \in DOMAIN session_state =>
          /\ uploaded_file # None
          /\ uploaded_file.parses
          /\ session_state["df_source"] = read_csv(uploaded_file)
    /\ "mappings" \in DOMAIN session_state =>
          /\ InputsPresent
          /\ session_state["mappings"] = CurrentMapping
    /\ "mapping_valid" \in DOMAIN session_state =>
          /\ InputsPresent
          /\ session_state["mapping_valid"] =
                 \A i \in 1..Len(contratos[selected_schema].fields) :
                     LET f == contratos[selected_schema].fields[i]
                     IN  f.required =>
                             CurrentSelection(f.target_field) # UNMAPPED

\* C10: the mapping stage is entered only with a schema loaded and a file
\* uploaded; uploading a file under the placeholder never enters it and
\* never reads the unbound field list.
C10_StagesGuarded ==
    /\ pc # "NameError_144"
    /\ "mappings" \in bound =>
          /\ uploaded_file # None
          /\ selected_schema # PLACEHOLDER
          /\ "fields" \in bound

====
